---- MODULE Spec2Model ----
(***************************************************************************)
(* A model of the forward pass of the Transformer in main.cpp,             *)
(* self_attention.h, transformer_layers.h, transformer_types.h and         *)
(* tokenizer_embeddings.h.                                                 *)
(*                                                                         *)
(* Numbers.  A C++ float is modelled by an integer on a fixed-point grid:  *)
(* the integer v stands for the real v / ONE.  Sums are exact, products    *)
(* and quotients are rounded to the grid (as float operations round), and  *)
(* std::exp underflows to 0 for arguments that are negative enough (as     *)
(* float exp does below about -103.9).  Vectors and matrices are TLA+      *)
(* sequences, so the C++ index k is the TLA+ index k + 1.                  *)
(***************************************************************************)
EXTENDS Integers, Sequences, FiniteSets, TLC

VARIABLES
    pc,                 \* position of main() / of the running predictNextWord
    randState,          \* hidden state of the C library's rand()
    tokenizer,          \* Transformer::tokenizer
    embeddings,         \* Transformer::embeddings
    encoder,            \* Transformer::encoder
    decoder,            \* Transformer::decoder
    outputLayerWeights, \* Transformer::outputLayerWeights
    embeddingDim,       \* Transformer::embeddingDim
    vocabSize,          \* Transformer::vocabSize
    nBuilds,            \* number of build() calls made so far
    seenWords,          \* history: the words buildVocabulary has read, in order
    tokens,             \* predictNextWord: tokens
    encoderInput,       \* predictNextWord: encoderInput
    encoderOutput,      \* predictNextWord: encoderOutput
    logits,             \* predictNextWord: logits
    probabilities,      \* predictNextWord: probabilities
    predictedIndex,     \* predictNextWord: predictedIndex
    result,             \* predictNextWord: the returned string
    stages,             \* history: the stages the running prediction has run
    lookups,            \* history: the getEmbedding(tokenIndex, position) calls
    call                \* the last component-level call: operation, inputs, output

vars == <<pc, randState, tokenizer, embeddings, encoder, decoder,
          outputLayerWeights, embeddingDim, vocabSize, nBuilds, seenWords,
          tokens, encoderInput, encoderOutput, logits, probabilities, predictedIndex,
          result, stages, lookups, call>>

-----------------------------------------------------------------------------
(* Bounds of the model.                                                    *)

MaxTokens == 2      \* longest input sentence, in tokens
MaxBuilds == 2      \* build() calls per run
MaxLayers == 1      \* numLayers ranges over 0..MaxLayers
MaxRows == 2        \* rows of a matrix handed to a component directly
MaxVecLen == 3      \* length of a vector handed to softmax directly

-----------------------------------------------------------------------------
(* float, on the fixed-point grid.                                         *)

ONE == 16

\* n / d rounded to the nearest integer, d > 0.
RDiv(n, d) == (2 * n + d) \div (2 * d)

\* What a float division by zero leaves behind (inf or NaN): not a number of
\* the grid.
NaN == -(2 ^ 30)

IsNaN(x) == x = NaN

FMul(a, b) == RDiv(a * b, ONE)

FDiv(a, b) == IF b = 0 THEN NaN ELSE RDiv(a * ONE, b)

Range(s) == {s[k] : k \in 1..Len(s)}

\* The element of a one-element set.  { e(x) : x \in {v} } computes v once
\* and names it x in e, as a local variable of the source holds a value
\* computed once.
The(S) == CHOOSE x \in S : TRUE

RECURSIVE ISqrtLoop(_, _, _)
ISqrtLoop(x, lo, hi) ==
    IF lo >= hi THEN lo
    ELSE LET mid == (lo + hi + 1) \div 2
         IN  IF mid * mid <= x THEN ISqrtLoop(x, mid, hi)
             ELSE ISqrtLoop(x, lo, mid - 1)

\* std::sqrt of the grid value v (v >= 0), rounded down to the grid.
SqrtFix(v) == ISqrtLoop(v * ONE, 0, v * ONE + 1)

\* ONE * exp(-k / ONE) rounded to the grid, for k = 0, 1, 2, ...
ExpTable ==
    <<16, 15, 14, 13, 12, 12, 11, 10, 10, 9, 9, 8, 8, 7, 7, 6, 6, 6, 5, 5, 5,
      4, 4, 4, 4, 3, 3, 3, 3, 3, 2, 2, 2, 2, 2, 2, 2, 2, 1, 1, 1, 1, 1, 1, 1,
      1, 1, 1, 1, 1, 1, 1, 1, 1, 1, 1>>

\* std::exp on the grid.  Below -Len(ExpTable) / ONE the result underflows
\* to 0; above +Len(ExpTable) / ONE it is saturated.
ExpFix(d) ==
    IF d <= -Len(ExpTable) THEN 0
    ELSE IF d <= 0 THEN ExpTable[1 - d]
    ELSE IF d >= Len(ExpTable) THEN ONE * ONE * ONE
    ELSE RDiv(ONE * ONE, ExpTable[1 + d])

\* ONE * sin(pos) and ONE * cos(pos) rounded to the grid, pos = 0, 1, 2, ...
SinTable == <<0, 13, 15, 2, -12, -15, -4>>

CosTable == <<16, 9, -7, -16, -10, 5, 15>>

-----------------------------------------------------------------------------
(* namespace Utils                                                         *)

\* std::accumulate(v.begin(), v.end(), 0.0f)
RECURSIVE SumFrom(_, _)
SumFrom(v, k) == IF k > Len(v) THEN 0 ELSE v[k] + SumFrom(v, k + 1)

accumulate(v) == The({SumFrom(x, 1) : x \in {v}})

\* *std::max_element(v.begin(), v.end()), v not empty
max_element(v) ==
    The({(CHOOSE m \in R : \A x \in R : x <= m) : R \in {Range(v)}})

dotProduct(a, b) ==
    The({accumulate([k \in 1..Len(x) |-> FMul(x[k], y[k])]) :
         x \in {a}, y \in {b}})

\* matMul(vec, matrix): the row vector vec times matrix
matMul(vec, matrix) ==
    The({[i \in 1..Len(m[1]) |->
            accumulate([j \in 1..Len(v) |-> FMul(v[j], m[j][i])])] :
         v \in {vec}, m \in {matrix}})

add(a, b) == The({[k \in 1..Len(x) |-> x[k] + y[k]] : x \in {a}, y \in {b}})

\* As softmaxExpScores, without the subtraction of the maximum.
softmaxExpScoresUnshifted(scores) ==
    The({[k \in 1..Len(sc) |-> ExpFix(sc[k])] : sc \in {scores}})

\* expScores of softmax(scores)
softmaxExpScores(scores) ==
    The({The({[k \in 1..Len(sc) |-> ExpFix(sc[k] - maxScore)] :
              maxScore \in {max_element(sc)}}) :
         sc \in {scores}})

softmax(scores) ==
    The({The({[k \in 1..Len(expScores) |->
                  FDiv(expScores[k], sumExpScores)] :
              sumExpScores \in {accumulate(expScores)}}) :
         expScores \in {softmaxExpScores(scores)}})

\* One call of rand(): the next hidden state, which is also the value
\* returned, in 0..RAND_MAX.
RAND_MAX == 16

RandNext(s) == (5 * s + 3) % (RAND_MAX + 1)

RECURSIVE RandSteps(_, _)
RandSteps(s, n) == IF n = 0 THEN s ELSE RandSteps(RandNext(s), n - 1)

\* initializeMatrix(matrix, rows, cols) started with rand() in state s:
\* entry (i, j) is the (i * cols + j + 1)-th value drawn, scaled into
\* [-0.5, 0.5].  m is the matrix, s the state rand() is left in.
initializeMatrix(s, rows, cols) ==
    The({[m |-> [i \in 1..rows |-> [j \in 1..cols |->
                    RDiv(RandSteps(s0, (i - 1) * cols + j) * ONE, RAND_MAX)
                        - ONE \div 2]],
          s |-> RandSteps(s0, rows * cols)] :
         s0 \in {s}})

\* epsilon = 1e-5 is below the grid's resolution; it is kept as the least
\* positive grid value, so that variance + epsilon stays positive.
Epsilon == 1

\* variance of layerNorm: the mean of the squared distances to mean.
layerNormVariance(x, mean) ==
    RDiv(accumulate([k \in 1..Len(x) |-> FMul(x[k] - mean, x[k] - mean)]),
         Len(x))

layerNorm(input, gamma, beta) ==
    The({The({The({[k \in 1..Len(x) |->
                    FDiv(FMul(gamma[k], x[k] - mean), stddev) + beta[k]] :
                   stddev \in
                       {SqrtFix(layerNormVariance(x, mean) + Epsilon)}}) :
              mean \in {RDiv(accumulate(x), Len(x))}}) :
         x \in {input}})

Fill(n, x) == [k \in 1..n |-> x]

-----------------------------------------------------------------------------
(* class MultiHeadSelfAttention                                            *)

\* The score written over scores[i][j], j > i, when mask is set.  The
\* source's -1e9 is kept as -10^9 units of the grid.
MaskScore == -1000000000

\* MultiHeadSelfAttention(embedDim, nHeads) with rand() in state s: obj is
\* the object built, s the state rand() is left in.
MultiHeadSelfAttention(s, embedDim, nHeads) ==
    LET q == initializeMatrix(s, embedDim, embedDim)
        k == initializeMatrix(q.s, embedDim, embedDim)
        v == initializeMatrix(k.s, embedDim, embedDim)
        o == initializeMatrix(v.s, embedDim, embedDim)
    IN  [obj |-> [embeddingDim |-> embedDim, numHeads |-> nHeads,
                  headDim |-> embedDim \div nHeads,
                  W_Q |-> q.m, W_K |-> k.m, W_V |-> v.m, W_O |-> o.m],
         s |-> o.s]

\* The scores after the optional masking pass.
MaskedScoresNoMask(scores, mask) == scores

MaskedScores(scores, mask) ==
    [i \in 1..Len(scores) |-> [j \in 1..Len(scores[i]) |->
        IF mask /\ j > i THEN MaskScore ELSE scores[i][j]]]

\* scores of scaledDotProductAttention, before the masking pass.
attentionScores(self, Q, K) ==
    The({[i \in 1..Len(Q) |-> [j \in 1..Len(K) |->
            FDiv(dotProduct(Q[i], K[j]), scale)]] :
         scale \in {SqrtFix(self.headDim * ONE)}})

\* attentionWeights of scaledDotProductAttention
attentionWeights(self, Q, K, mask) ==
    The({[i \in 1..Len(masked) |-> softmax(masked[i])] :
         masked \in {MaskedScores(attentionScores(self, Q, K), mask)}})

\* Q, K and V are matrices already computed.
scaledDotProductAttention(self, Q, K, V, mask) ==
    The({[i \in 1..Len(w) |-> [k \in 1..Len(V[1]) |->
            accumulate([j \in 1..Len(w[1]) |-> FMul(w[i][j], V[j][k])])]] :
         w \in {attentionWeights(self, Q, K, mask)}})

\* Rows of input times the weight matrix W: Q_all, K_all, V_all and the
\* final linear layer.
Project(input, W) ==
    The({[i \in 1..Len(x) |-> matMul(x[i], W)] : x \in {input}})

\* As headColumn, without the offset of the head.
headColumnOfFirstHead(self, h, d) == d

\* The column h * headDim + d that head h reads into entry d of Q_head,
\* K_head and V_head and writes entry d of headOutput to; h, d and the
\* column count from 0 as in the source.
headColumn(self, h, d) == h * self.headDim + d

\* The columns of Q_all, K_all and V_all that the loop of head h reads.
headReads(self, h) == {headColumn(self, h, d) : d \in 0..(self.headDim - 1)}

\* Q_head (K_head, V_head) of head h = 0 .. numHeads - 1, from all = Q_all
\* (K_all, V_all).
HeadSlice(self, all, h) ==
    [i \in 1..Len(all) |-> [d \in 1..self.headDim |->
        all[i][headColumn(self, h, d - 1) + 1]]]

\* headOutput of head h, from Q_all, K_all and V_all.
headOutput(self, Q_all, K_all, V_all, mask, h) ==
    The({scaledDotProductAttention(self, Q, K, V, mask) :
         Q \in {HeadSlice(self, Q_all, h)},
         K \in {HeadSlice(self, K_all, h)},
         V \in {HeadSlice(self, V_all, h)}})

\* The assignments to concatenatedHeads in the order the loops make them:
\* for each head h, for each row i, for each d, entry d of row i of the
\* head's output goes to column headColumn(h, d) of row i.
concatWrites(self, seqLen) ==
    [k \in 1..(self.numHeads * seqLen * self.headDim) |->
        LET h == (k - 1) \div (seqLen * self.headDim)
            i == ((k - 1) \div self.headDim) % seqLen
            d == (k - 1) % self.headDim
        IN  [head |-> h, row |-> i, d |-> d,
             col |-> headColumn(self, h, d)]]

\* concatenatedHeads after the loop over the heads: it is constructed with
\* every entry 0.0f, and the assignments are made to it one after another;
\* out[h] is the headOutput of head h.
concatenate(self, seqLen, out) ==
    LET writes == concatWrites(self, seqLen)
        buf[k \in 0..Len(writes)] ==
            IF k = 0
            THEN [i \in 1..seqLen |-> [c \in 1..self.embeddingDim |-> 0]]
            ELSE LET w == writes[k]
                 IN  [buf[k - 1] EXCEPT ![w.row + 1][w.col + 1] =
                          out[w.head][w.row + 1][w.d + 1]]
    IN  buf[Len(writes)]

\* concatenatedHeads of forward(input, mask), with Key and Value projected
\* from kvInput (forward passes its input).
concatenatedHeads(self, input, kvInput, mask) ==
    The({The({concatenate(self, Len(Q_all), out) :
              out \in {[h \in 0..(self.numHeads - 1) |->
                          headOutput(self, Q_all, K_all, V_all, mask, h)]}}) :
         Q_all \in {Project(input, self.W_Q)},
         K_all \in {Project(kvInput, self.W_K)},
         V_all \in {Project(kvInput, self.W_V)}})

\* The locals of forward(input, mask) before the final linear layer: Q_all,
\* K_all and V_all, for each head h the columns its loop reads, its Q_head,
\* K_head and V_head and its headOutput, the assignments made to
\* concatenatedHeads in order, and concatenatedHeads after them.
forwardLocals(self, input, mask) ==
    The({[Q_all |-> Q_all, K_all |-> K_all, V_all |-> V_all,
          heads |-> [h \in 0..(self.numHeads - 1) |->
                        [reads |-> headReads(self, h),
                         Q_head |-> HeadSlice(self, Q_all, h),
                         K_head |-> HeadSlice(self, K_all, h),
                         V_head |-> HeadSlice(self, V_all, h),
                         headOutput |-> headOutput(self, Q_all, K_all, V_all,
                                                   mask, h)]],
          writes |-> concatWrites(self, Len(input)),
          concatenatedHeads |-> concatenatedHeads(self, input, input, mask)] :
         Q_all \in {Project(input, self.W_Q)},
         K_all \in {Project(input, self.W_K)},
         V_all \in {Project(input, self.W_V)}})

\* MultiHeadSelfAttention::forward(input, mask)
MHA_forward(self, input, mask) ==
    The({Project(concatenatedHeads(self, x, x, mask), self.W_O) :
         x \in {input}})

-----------------------------------------------------------------------------
(* class FeedForwardNetwork                                                *)

FeedForwardNetwork(s, inDim, hDim) ==
    LET w1 == initializeMatrix(s, inDim, hDim)
        w2 == initializeMatrix(w1.s, hDim, inDim)
    IN  [obj |-> [W1 |-> w1.m, W2 |-> w2.m, B1 |-> Fill(hDim, 0),
                  B2 |-> Fill(inDim, 0), inputDim |-> inDim,
                  hiddenDim |-> hDim],
         s |-> w2.s]

relu(input) ==
    The({[k \in 1..Len(x) |-> IF x[k] > 0 THEN x[k] ELSE 0] : x \in {input}})

FFN_forward(self, input) ==
    The({add(matMul(hidden, self.W2), self.B2) :
         hidden \in {relu(add(matMul(input, self.W1), self.B1))}})

-----------------------------------------------------------------------------
(* class EncoderLayer                                                      *)

EncoderLayer(s, embedDim, numHeads, ffnHiddenDim) ==
    LET a == MultiHeadSelfAttention(s, embedDim, numHeads)
        f == FeedForwardNetwork(a.s, embedDim, ffnHiddenDim)
    IN  [obj |-> [selfAttention |-> a.obj, ffn |-> f.obj,
                  ln1_gamma |-> Fill(embedDim, ONE),
                  ln1_beta |-> Fill(embedDim, 0),
                  ln2_gamma |-> Fill(embedDim, ONE),
                  ln2_beta |-> Fill(embedDim, 0),
                  embeddingDim |-> embedDim],
         s |-> f.s]

\* As AddNorm, with the loop stopping one row early.
AddNormStopsEarly(x, y, gamma, beta) ==
    The({[i \in 1..(Len(a) - 1) |-> layerNorm(add(a[i], b[i]), gamma, beta)] :
         a \in {x}, b \in {y}})

\* Add & Norm: layerNorm(x[i] + y[i], gamma, beta) for every row i.
AddNorm(x, y, gamma, beta) ==
    The({[i \in 1..Len(a) |-> layerNorm(add(a[i], b[i]), gamma, beta)] :
         a \in {x}, b \in {y}})

\* ffn.forward of every row.
FFN_rows(ffn, x) ==
    The({[i \in 1..Len(a) |-> FFN_forward(ffn, a[i])] : a \in {x}})

EncoderLayer_forward(self, input) ==
    The({The({AddNorm(output1, FFN_rows(self.ffn, output1),
                      self.ln2_gamma, self.ln2_beta) :
              output1 \in {AddNorm(x, MHA_forward(self.selfAttention, x, FALSE),
                                   self.ln1_gamma, self.ln1_beta)}}) :
         x \in {input}})

-----------------------------------------------------------------------------
(* class DecoderLayer                                                      *)

DecoderLayer(s, embedDim, numHeads, ffnHiddenDim) ==
    LET m == MultiHeadSelfAttention(s, embedDim, numHeads)
        c == MultiHeadSelfAttention(m.s, embedDim, numHeads)
        f == FeedForwardNetwork(c.s, embedDim, ffnHiddenDim)
    IN  [obj |-> [maskedSelfAttention |-> m.obj,
                  encoderDecoderAttention |-> c.obj, ffn |-> f.obj,
                  ln1_gamma |-> Fill(embedDim, ONE),
                  ln1_beta |-> Fill(embedDim, 0),
                  ln2_gamma |-> Fill(embedDim, ONE),
                  ln2_beta |-> Fill(embedDim, 0),
                  ln3_gamma |-> Fill(embedDim, ONE),
                  ln3_beta |-> Fill(embedDim, 0),
                  embeddingDim |-> embedDim],
         s |-> f.s]

\* output1 of DecoderLayer::forward: masked self-attention, add and norm.
DecoderLayer_output1(self, targetInput) ==
    The({AddNorm(x, MHA_forward(self.maskedSelfAttention, x, TRUE),
                 self.ln1_gamma, self.ln1_beta) :
         x \in {targetInput}})

\* The matrix from which the encoder-decoder attention of
\* DecoderLayer::forward projects Key and Value: forward(output1) takes
\* them, like Query, from output1.
DecoderLayer_keyValueInput(output1, encoderOutputArg) == output1

DecoderLayer_encDecAttnOutput(self, output1, encoderOutputArg) ==
    The({Project(concatenatedHeads(self.encoderDecoderAttention, output1,
                                   kv, FALSE),
                 self.encoderDecoderAttention.W_O) :
         kv \in {DecoderLayer_keyValueInput(output1, encoderOutputArg)}})

DecoderLayer_forward(self, targetInput, encoderOutputArg) ==
    The({The({AddNorm(output2, FFN_rows(self.ffn, output2),
                      self.ln3_gamma, self.ln3_beta) :
              output2 \in
                {AddNorm(output1,
                         DecoderLayer_encDecAttnOutput(self, output1, enc),
                         self.ln2_gamma, self.ln2_beta)}}) :
         output1 \in {DecoderLayer_output1(self, targetInput)},
         enc \in {encoderOutputArg}})

-----------------------------------------------------------------------------
(* class Encoder, class Decoder                                            *)

RECURSIVE EncoderLayers(_, _, _, _, _)
EncoderLayers(s, numL, embedDim, numHeads, ffnHiddenDim) ==
    IF numL = 0 THEN [layers |-> <<>>, s |-> s]
    ELSE LET l == EncoderLayer(s, embedDim, numHeads, ffnHiddenDim)
             r == EncoderLayers(l.s, numL - 1, embedDim, numHeads,
                                ffnHiddenDim)
         IN  [layers |-> <<l.obj>> \o r.layers, s |-> r.s]

Encoder(s, numL, embedDim, numHeads, ffnHiddenDim) ==
    LET r == EncoderLayers(s, numL, embedDim, numHeads, ffnHiddenDim)
    IN  [obj |-> [layers |-> r.layers, numLayers |-> numL], s |-> r.s]

\* output after the first k layers of Encoder::forward(input).
RECURSIVE Encoder_outputAfter(_, _, _)
Encoder_outputAfter(self, input, k) ==
    IF k = 0 THEN input
    ELSE The({EncoderLayer_forward(self.layers[k], output) :
              output \in {Encoder_outputAfter(self, input, k - 1)}})

Encoder_forward(self, input) ==
    Encoder_outputAfter(self, input, Len(self.layers))

RECURSIVE DecoderLayers(_, _, _, _, _)
DecoderLayers(s, numL, embedDim, numHeads, ffnHiddenDim) ==
    IF numL = 0 THEN [layers |-> <<>>, s |-> s]
    ELSE LET l == DecoderLayer(s, embedDim, numHeads, ffnHiddenDim)
             r == DecoderLayers(l.s, numL - 1, embedDim, numHeads,
                                ffnHiddenDim)
         IN  [layers |-> <<l.obj>> \o r.layers, s |-> r.s]

Decoder(s, numL, embedDim, numHeads, ffnHiddenDim) ==
    LET r == DecoderLayers(s, numL, embedDim, numHeads, ffnHiddenDim)
    IN  [obj |-> [layers |-> r.layers, numLayers |-> numL], s |-> r.s]

RECURSIVE Decoder_outputAfter(_, _, _, _)
Decoder_outputAfter(self, targetInput, encoderOutputArg, k) ==
    IF k = 0 THEN targetInput
    ELSE The({DecoderLayer_forward(self.layers[k], output, encoderOutputArg) :
              output \in {Decoder_outputAfter(self, targetInput,
                                              encoderOutputArg, k - 1)}})

Decoder_forward(self, targetInput, encoderOutputArg) ==
    Decoder_outputAfter(self, targetInput, encoderOutputArg,
                        Len(self.layers))

-----------------------------------------------------------------------------
(* class Tokenizer                                                         *)

\* ::tolower applied to every character of a word of the model.
ToLower(w) ==
    CASE w = "The" -> "the"
      [] w = "FOX" -> "fox"
      [] OTHER -> w

Tokenizer == [wordToIndex |-> <<>>, indexToWord |-> <<>>, vocabSize |-> 0]

\* As addWord, without the conversion to lowercase.
addWordAsWritten(self, w) ==
    IF w \notin DOMAIN self.wordToIndex
    THEN [wordToIndex |-> self.wordToIndex @@ (w :> self.vocabSize),
          indexToWord |-> self.indexToWord @@ (self.vocabSize :> w),
          vocabSize |-> self.vocabSize + 1]
    ELSE self

\* The body of the inner loop of buildVocabulary for one word.
addWord(self, w) ==
    LET word == ToLower(w)
    IN  IF word \notin DOMAIN self.wordToIndex
        THEN [wordToIndex |-> self.wordToIndex @@ (word :> self.vocabSize),
              indexToWord |-> self.indexToWord @@ (self.vocabSize :> word),
              vocabSize |-> self.vocabSize + 1]
        ELSE self

RECURSIVE addWords(_, _)
addWords(self, sentence) ==
    IF sentence = <<>> THEN self
    ELSE addWords(addWord(self, Head(sentence)), Tail(sentence))

\* A sentence is the sequence of words that iss >> word reads from it.
RECURSIVE buildVocabulary(_, _)
buildVocabulary(self, sentences) ==
    IF sentences = <<>> THEN self
    ELSE buildVocabulary(addWords(self, Head(sentences)), Tail(sentences))

encode(self, word) ==
    LET lowerWord == ToLower(word)
    IN  IF lowerWord \in DOMAIN self.wordToIndex
        THEN self.wordToIndex[lowerWord]
        ELSE -1

\* The tokenizer that a call of encode leaves behind.
encodeInserts(self, word) ==
    LET lowerWord == ToLower(word)
    IN  IF lowerWord \in DOMAIN self.wordToIndex THEN self
        ELSE [self EXCEPT !.wordToIndex = @ @@ (lowerWord :> 0)]

encodeLeaves(self, word) == self

decode(self, index) ==
    IF index \in DOMAIN self.indexToWord
    THEN self.indexToWord[index]
    ELSE "<unk>"

getVocabSize(self) == self.vocabSize

-----------------------------------------------------------------------------
(* class Embeddings                                                        *)

\* positionalEncodings[pos][i].  The angle is pos / 10000^0 = pos for
\* i = 0 and i = 1; for i >= 2 it is at most pos / 10000^(4 / embeddingDim),
\* which on the grid is the angle 0 for the dimensions and positions of the
\* model.
positionalEncoding(pos, i) ==
    IF i % 2 = 0
    THEN (IF i = 0 THEN SinTable[pos + 1] ELSE 0)
    ELSE (IF i = 1 THEN CosTable[pos + 1] ELSE ONE)

generatePositionalEncodings(embedDim, maxSeqLen) ==
    [p \in 1..maxSeqLen |-> [c \in 1..embedDim |->
        positionalEncoding(p - 1, c - 1)]]

Embeddings(s, vocSize, embedDim, maxSeqLen) ==
    LET w == initializeMatrix(s, vocSize, embedDim)
    IN  [obj |-> [wordEmbeddings |-> w.m,
                  positionalEncodings |->
                      generatePositionalEncodings(embedDim, maxSeqLen),
                  embeddingDim |-> embedDim,
                  maxSequenceLength |-> maxSeqLen],
         s |-> w.s]

\* Both subscripts of getEmbedding(tokenIndex, position) are inside their
\* vectors.
InBounds(self, tokenIndex, position) ==
    /\ 0 <= tokenIndex /\ tokenIndex < Len(self.wordEmbeddings)
    /\ 0 <= position /\ position < Len(self.positionalEncodings)

\* getEmbedding(tokenIndex, position), both subscripts inside their vectors.
getEmbedding(self, tokenIndex, position) ==
    add(self.wordEmbeddings[tokenIndex + 1],
        self.positionalEncodings[position + 1])

-----------------------------------------------------------------------------
(* class Transformer and main()                                            *)

\* The arguments main() may construct the Transformer with.
EmbedDims == {2, 3}

HeadCounts == {1, 2}

FfnHiddenDims == {2}

LayerCounts == 0..MaxLayers

MaxSeqLens == {MaxTokens - 1, MaxTokens}

\* The state rand() starts in: no srand() is called, so rand() runs as if
\* seeded with 1.
Seeds == {1}

\* What the member vocabSize may hold before build() first assigns it.
Indeterminate == {0, 1}

\* The corpora handed to build(): each sentence is its sequence of words.
Corpora ==
    { << <<"The">>, <<"fox", "the", "FOX">> >>,
      << <<"dog", "the">> >> }

\* The words of an input sentence; "zzz" is in no corpus.
Words == {"The", "fox", "zzz"}

RECURSIVE SeqsUpTo(_, _)
SeqsUpTo(S, n) ==
    IF n = 0 THEN {<<>>}
    ELSE LET shorter == SeqsUpTo(S, n - 1)
         IN  shorter \cup {Append(q, x) : q \in shorter, x \in S}

Sentences == SeqsUpTo(Words, MaxTokens)

\* What a read outside a vector may add to a row of encoderInput.
GarbageValues == {0, ONE}

NoLocals ==
    /\ result' = ""
    /\ tokens' = <<>>
    /\ encoderInput' = <<>>
    /\ encoderOutput' = <<>>
    /\ logits' = <<>>
    /\ probabilities' = <<>>
    /\ predictedIndex' = 0
    /\ stages' = <<>>
    /\ lookups' = <<>>

Init ==
    /\ pc = "start"
    /\ randState \in Seeds
    /\ tokenizer = Tokenizer
    /\ embeddings = <<>>
    /\ encoder = <<>>
    /\ decoder = <<>>
    /\ outputLayerWeights = <<>>
    /\ embeddingDim = 0
    /\ vocabSize = 0
    /\ nBuilds = 0
    /\ seenWords = <<>>
    /\ tokens = <<>>
    /\ encoderInput = <<>>
    /\ encoderOutput = <<>>
    /\ logits = <<>>
    /\ probabilities = <<>>
    /\ predictedIndex = 0
    /\ result = ""
    /\ stages = <<>>
    /\ lookups = <<>>
    /\ call = [op |-> "none"]

\* Transformer::Transformer(embedDim, numHeads, ffnHiddenDim, numLayers,
\* maxSeqLen): the members are built in the order of their declaration.
Construct(embedDim, numHeads, ffnHiddenDim, numLayers, maxSeqLen) ==
    /\ pc = "start"
    /\ LET e == Embeddings(randState, 1, embedDim, maxSeqLen)
           enc == Encoder(e.s, numLayers, embedDim, numHeads, ffnHiddenDim)
           dec == Decoder(enc.s, numLayers, embedDim, numHeads, ffnHiddenDim)
       IN  /\ embeddings' = e.obj
           /\ encoder' = enc.obj
           /\ decoder' = dec.obj
           /\ randState' = dec.s
    /\ embeddingDim' = embedDim
    /\ vocabSize' \in Indeterminate
    /\ pc' = "constructed"
    /\ UNCHANGED <<tokenizer, outputLayerWeights, nBuilds, seenWords, tokens,
                   encoderInput, encoderOutput, logits, probabilities,
                   predictedIndex, result, stages, lookups, call>>

\* The words of the sentences, in the order they are read.
RECURSIVE Flatten(_)
Flatten(sentences) ==
    IF sentences = <<>> THEN <<>>
    ELSE Head(sentences) \o Flatten(Tail(sentences))

\* Transformer::build(corpus)
Build(corpus) ==
    /\ pc \in {"constructed", "ready"}
    /\ nBuilds < MaxBuilds
    /\ LET tok == buildVocabulary(tokenizer, corpus)
           e == Embeddings(randState, getVocabSize(tok), embeddingDim,
                           embeddings.maxSequenceLength)
           w == initializeMatrix(e.s, embeddingDim, getVocabSize(tok))
       IN  /\ tokenizer' = tok
           /\ vocabSize' = getVocabSize(tok)
           /\ embeddings' = e.obj
           /\ outputLayerWeights' = w.m
           /\ randState' = w.s
    /\ nBuilds' = nBuilds + 1
    /\ seenWords' = seenWords \o Flatten(corpus)
    /\ pc' = "ready"
    /\ UNCHANGED <<encoder, decoder, embeddingDim, tokens, encoderInput,
                   encoderOutput, logits, probabilities, predictedIndex,
                   result, stages, lookups, call>>

-----------------------------------------------------------------------------
(* Transformer::predictNextWord(sentence), statement by statement          *)

\* The tokenizer after encode has been called on each word in turn.
RECURSIVE encodeAll(_, _)
encodeAll(self, words) ==
    IF words = <<>> THEN self
    ELSE encodeAll(encodeLeaves(self, Head(words)), Tail(words))

\* Lines 47-54: split the sentence into tokens; an empty one returns "".
PredictStart(sentence) ==
    /\ pc = "ready"
    /\ IF sentence = <<>>
       THEN /\ NoLocals
            /\ pc' = "ready"
       ELSE /\ tokens' = sentence
            /\ encoderInput' = <<>>
            /\ encoderOutput' = <<>>
            /\ logits' = <<>>
            /\ probabilities' = <<>>
            /\ predictedIndex' = 0
            /\ stages' = <<>>
            /\ lookups' = <<>>
            /\ result' = result
            /\ pc' = "prepare"
    /\ UNCHANGED <<randState, tokenizer, embeddings, encoder, decoder,
                   outputLayerWeights, embeddingDim, vocabSize, nBuilds,
                   seenWords, call>>

\* tokenIdx of the token at C++ position i - 1.
tokenIdxAt(i) == encode(tokenizer, tokens[i])

\* The tokens whose getEmbedding call reads outside a vector.
OutOfBounds ==
    {i \in 1..Len(tokens) :
        /\ tokenIdxAt(i) # -1
        /\ ~InBounds(embeddings, tokenIdxAt(i), i - 1)}

\* The getEmbedding calls made for tokens 1..n, in order.
RECURSIVE lookupsUpTo(_)
lookupsUpTo(n) ==
    IF n = 0 THEN <<>>
    ELSE IF tokenIdxAt(n) = -1 THEN lookupsUpTo(n - 1)
    ELSE Append(lookupsUpTo(n - 1),
                [tokenIndex |-> tokenIdxAt(n), position |-> n - 1])

\* As encoderInputRow, with an unknown token given the embedding of index 0.
encoderInputRowUnknownAsFirst(i, garbage) ==
    IF tokenIdxAt(i) = -1 THEN getEmbedding(embeddings, 0, 0)
    ELSE IF i \in OutOfBounds
    THEN Fill(embeddingDim, garbage[i])
    ELSE getEmbedding(embeddings, tokenIdxAt(i), i - 1)

\* Row i - 1 of encoderInput after the loop of lines 58-68; garbage[i] is
\* what a read outside positionalEncodings adds to it.
encoderInputRow(i, garbage) ==
    IF tokenIdxAt(i) = -1 THEN Fill(embeddingDim, 0)
    ELSE IF i \in OutOfBounds
    THEN (IF tokenIdxAt(i) < Len(embeddings.wordEmbeddings)
          THEN add(embeddings.wordEmbeddings[tokenIdxAt(i) + 1],
                   Fill(embeddingDim, garbage[i]))
          ELSE Fill(embeddingDim, garbage[i]))
    ELSE getEmbedding(embeddings, tokenIdxAt(i), i - 1)

\* Lines 56-68: fill encoderInput.  A getEmbedding call that reads outside a
\* vector is undefined behaviour: the process dies there, or goes on with
\* whatever the read returned.
Prepare ==
    /\ pc = "prepare"
    /\ tokenizer' = encodeAll(tokenizer, tokens)
    /\ \/ /\ \E garbage \in [OutOfBounds -> GarbageValues] :
                encoderInput' =
                    [i \in 1..Len(tokens) |-> encoderInputRow(i, garbage)]
          /\ lookups' = lookupsUpTo(Len(tokens))
          /\ stages' = Append(stages, "embeddings")
          /\ pc' = "encode"
       \/ /\ OutOfBounds # {}
          /\ LET c == CHOOSE i \in OutOfBounds :
                          \A k \in OutOfBounds : i <= k
             IN  /\ encoderInput' =
                        [i \in 1..Len(tokens) |->
                            IF i < c THEN encoderInputRow(i, <<>>)
                            ELSE Fill(embeddingDim, 0)]
                 /\ lookups' = lookupsUpTo(c)
          /\ stages' = stages
          /\ pc' = "crashed"
    /\ UNCHANGED <<randState, embeddings, encoder, decoder,
                   outputLayerWeights, embeddingDim, vocabSize, nBuilds,
                   seenWords, tokens, encoderOutput, logits, probabilities,
                   predictedIndex, result, call>>

\* Line 71: run through the encoder.
RunEncoder ==
    /\ pc = "encode"
    /\ encoderOutput' = Encoder_forward(encoder, encoderInput)
    /\ stages' = Append(stages, "encoder")
    /\ pc' = "project"
    /\ UNCHANGED <<randState, tokenizer, embeddings, encoder, decoder,
                   outputLayerWeights, embeddingDim, vocabSize, nBuilds,
                   seenWords, tokens, encoderInput, logits, probabilities,
                   predictedIndex, result, lookups, call>>

\* Lines 76-79: the logits of the last row of the encoder's output.
ProjectOutput ==
    /\ pc = "project"
    /\ logits' = matMul(encoderOutput[Len(encoderOutput)], outputLayerWeights)
    /\ stages' = Append(stages, "projection")
    /\ pc' = "softmax"
    /\ UNCHANGED <<randState, tokenizer, embeddings, encoder, decoder,
                   outputLayerWeights, embeddingDim, vocabSize, nBuilds,
                   seenWords, tokens, encoderInput, encoderOutput, probabilities,
                   predictedIndex, result, lookups, call>>

\* Line 82
ApplySoftmax ==
    /\ pc = "softmax"
    /\ probabilities' = softmax(logits)
    /\ stages' = Append(stages, "softmax")
    /\ pc' = "argmax"
    /\ UNCHANGED <<randState, tokenizer, embeddings, encoder, decoder,
                   outputLayerWeights, embeddingDim, vocabSize, nBuilds,
                   seenWords, tokens, encoderInput, encoderOutput, logits,
                   predictedIndex, result, lookups, call>>

\* Lines 85-92: predictedIndex after the loop has looked at the first n
\* entries of probs; maxProb is the last field.
argmaxTakesLast(probs, n) ==
    LET A[k \in 0..n] ==
            IF k = 0 THEN [predictedIndex |-> 0, maxProb |-> 0]
            ELSE IF probs[k] >= A[k - 1].maxProb
            THEN [predictedIndex |-> k - 1, maxProb |-> probs[k]]
            ELSE A[k - 1]
    IN  A[n]

argmaxLoop(probs, n) ==
    LET A[k \in 0..n] ==
            IF k = 0 THEN [predictedIndex |-> 0, maxProb |-> 0]
            ELSE IF probs[k] > A[k - 1].maxProb
            THEN [predictedIndex |-> k - 1, maxProb |-> probs[k]]
            ELSE A[k - 1]
    IN  A[n]

FindHighest ==
    /\ pc = "argmax"
    /\ predictedIndex' =
            argmaxLoop(probabilities, Len(probabilities)).predictedIndex
    /\ stages' = Append(stages, "argmax")
    /\ pc' = "decode"
    /\ UNCHANGED <<randState, tokenizer, embeddings, encoder, decoder,
                   outputLayerWeights, embeddingDim, vocabSize, nBuilds,
                   seenWords, tokens, encoderInput, encoderOutput, logits,
                   probabilities, result, lookups, call>>

\* Line 94: decode the index; the result is in main()'s hands (pc =
\* "returned") until main() is done with it, and the locals are gone.
ReturnDecoded ==
    /\ pc = "decode"
    /\ result' = decode(tokenizer, predictedIndex)
    /\ stages' = Append(stages, "decode")
    /\ pc' = "returned"
    /\ UNCHANGED <<randState, tokenizer, embeddings, encoder, decoder,
                   outputLayerWeights, embeddingDim, vocabSize, nBuilds,
                   seenWords, tokens, encoderInput, encoderOutput, logits,
                   probabilities, predictedIndex, lookups, call>>

\* main() has printed the result; nothing of the call is left.
Finish ==
    /\ pc = "returned"
    /\ NoLocals
    /\ pc' = "ready"
    /\ UNCHANGED <<randState, tokenizer, embeddings, encoder, decoder,
                   outputLayerWeights, embeddingDim, vocabSize, nBuilds,
                   seenWords, call>>

Next ==
    \/ \E d \in EmbedDims, h \in HeadCounts, f \in FfnHiddenDims,
          l \in LayerCounts, m \in MaxSeqLens : Construct(d, h, f, l, m)
    \/ \E corpus \in Corpora : Build(corpus)
    \/ \E sentence \in Sentences : PredictStart(sentence)
    \/ Prepare
    \/ RunEncoder
    \/ ProjectOutput
    \/ ApplySoftmax
    \/ FindHighest
    \/ ReturnDecoded
    \/ Finish

Spec == Init /\ [][Next]_vars

-----------------------------------------------------------------------------
(* The components called directly, as a test of one class calls them: one  *)
(* call on the objects constructed, after which the test is over.          *)

\* A row of length d: a at the even C++ columns, b at the odd ones.
InputRow(d, a, b) == [k \in 1..d |-> IF k % 2 = 1 THEN a ELSE b]

InputRows(d) == {InputRow(d, a, b) : a, b \in {-ONE, ONE}}

\* The matrices of 1..MaxRows rows handed to forward.
InputMatrices(d) == SeqsUpTo(InputRows(d), MaxRows) \ {<<>>}

\* The encoder outputs handed to a decoder layer: 1..MaxRows equal rows.
EncoderOutputs(d) ==
    {[i \in 1..n |-> InputRow(d, a, a)] : n \in 1..MaxRows, a \in {-ONE, ONE}}

\* An Encoder and a Decoder have been constructed, as the Transformer
\* constructs them.
ComponentsInit ==
    /\ pc = "components"
    /\ \E s \in Seeds, d \in EmbedDims, h \in HeadCounts,
          f \in FfnHiddenDims, l \in LayerCounts :
          LET enc == Encoder(s, l, d, h, f)
              dec == Decoder(enc.s, l, d, h, f)
          IN  /\ encoder = enc.obj
              /\ decoder = dec.obj
              /\ randState = dec.s
              /\ embeddingDim = d
    /\ tokenizer = Tokenizer
    /\ embeddings = <<>>
    /\ outputLayerWeights = <<>>
    /\ vocabSize = 0
    /\ nBuilds = 0
    /\ seenWords = <<>>
    /\ tokens = <<>>
    /\ encoderInput = <<>>
    /\ encoderOutput = <<>>
    /\ logits = <<>>
    /\ probabilities = <<>>
    /\ predictedIndex = 0
    /\ result = ""
    /\ stages = <<>>
    /\ lookups = <<>>
    /\ call = [op |-> "none"]

\* Everything but pc and call.
notCall == <<randState, tokenizer, embeddings, encoder, decoder,
             outputLayerWeights, embeddingDim, vocabSize, nBuilds, seenWords,
             tokens, encoderInput, encoderOutput, logits, probabilities,
             predictedIndex, result, stages, lookups>>

\* forward(input, mask) of an attention object: the masked self-attention
\* of decoder layer l.
AttentionForward(l, input, mask) ==
    /\ pc = "components"
    /\ l \in 1..Len(decoder.layers)
    /\ LET self == decoder.layers[l].maskedSelfAttention
       IN  call' = [op |-> "MultiHeadSelfAttention.forward", mask |-> mask,
                    input |-> input, self |-> self,
                    locals |-> forwardLocals(self, input, mask),
                    output |-> MHA_forward(self, input, mask)]
    /\ pc' = "called"
    /\ UNCHANGED notCall

\* forward(input, true) of the same object, and forward(input2, true) of the
\* input with row j replaced by row.
MaskedForwardTwice(l, input, j, row) ==
    /\ pc = "components"
    /\ l \in 1..Len(decoder.layers)
    /\ j \in 1..Len(input)
    /\ LET self == decoder.layers[l].maskedSelfAttention
           input2 == [input EXCEPT ![j] = row]
       IN  call' = [op |-> "MultiHeadSelfAttention.forward twice",
                    mask |-> TRUE, input |-> input,
                    output |-> MHA_forward(self, input, TRUE),
                    changedRow |-> j, input2 |-> input2,
                    output2 |-> MHA_forward(self, input2, TRUE)]
    /\ pc' = "called"
    /\ UNCHANGED notCall

EncoderLayerForward(l, input) ==
    /\ pc = "components"
    /\ l \in 1..Len(encoder.layers)
    /\ call' = [op |-> "EncoderLayer.forward", input |-> input,
                output |-> EncoderLayer_forward(encoder.layers[l], input)]
    /\ pc' = "called"
    /\ UNCHANGED notCall

\* Encoder::forward(input); outputs[k] is output after k layers.
EncoderForward(input) ==
    /\ pc = "components"
    /\ call' = [op |-> "Encoder.forward", input |-> input,
                outputs |-> [k \in 0..Len(encoder.layers) |->
                                Encoder_outputAfter(encoder, input, k)],
                output |-> Encoder_forward(encoder, input)]
    /\ pc' = "called"
    /\ UNCHANGED notCall

\* DecoderLayer::forward(targetInput, encoderOutput); keyValueInput is the
\* matrix its encoder-decoder attention projected Key and Value from.
DecoderLayerForward(l, targetInput, encoderOutputArg) ==
    /\ pc = "components"
    /\ l \in 1..Len(decoder.layers)
    /\ LET self == decoder.layers[l]
       IN  call' = [op |-> "DecoderLayer.forward", input |-> targetInput,
                    encoderOutput |-> encoderOutputArg,
                    keyValueInput |->
                        DecoderLayer_keyValueInput(
                            DecoderLayer_output1(self, targetInput),
                            encoderOutputArg),
                    output |-> DecoderLayer_forward(self, targetInput,
                                                    encoderOutputArg)]
    /\ pc' = "called"
    /\ UNCHANGED notCall

DecoderForward(targetInput, encoderOutputArg) ==
    /\ pc = "components"
    /\ call' = [op |-> "Decoder.forward", input |-> targetInput,
                encoderOutput |-> encoderOutputArg,
                output |-> Decoder_forward(decoder, targetInput,
                                           encoderOutputArg)]
    /\ pc' = "called"
    /\ UNCHANGED notCall

ComponentsNext ==
    \/ /\ pc = "components"
       /\ \E l \in 1..MaxLayers, input \in InputMatrices(embeddingDim),
             mask \in BOOLEAN : AttentionForward(l, input, mask)
    \/ /\ pc = "components"
       /\ \E l \in 1..MaxLayers, input \in InputMatrices(embeddingDim),
             j \in 1..MaxRows, row \in InputRows(embeddingDim) :
             MaskedForwardTwice(l, input, j, row)
    \/ /\ pc = "components"
       /\ \E l \in 1..MaxLayers, input \in InputMatrices(embeddingDim) :
             EncoderLayerForward(l, input)
    \/ /\ pc = "components"
       /\ \E input \in InputMatrices(embeddingDim) : EncoderForward(input)
    \/ /\ pc = "components"
       /\ \E l \in 1..MaxLayers, input \in InputMatrices(embeddingDim),
             e \in EncoderOutputs(embeddingDim) :
             DecoderLayerForward(l, input, e)
    \/ /\ pc = "components"
       /\ \E input \in InputMatrices(embeddingDim),
             e \in EncoderOutputs(embeddingDim) : DecoderForward(input, e)

SpecComponents == ComponentsInit /\ [][ComponentsNext]_vars

\* The embedding dimensions of the attention objects whose forward is called
\* directly: 4 gives two heads of two columns each.
HeadEmbedDims == {2, 3, 4}

\* A Decoder of one layer has been constructed; its masked self-attention
\* is the attention object called.
HeadsInit ==
    /\ pc = "components"
    /\ \E s \in Seeds, d \in HeadEmbedDims, h \in HeadCounts,
          f \in FfnHiddenDims :
          LET enc == Encoder(s, 0, d, h, f)
              dec == Decoder(enc.s, 1, d, h, f)
          IN  /\ encoder = enc.obj
              /\ decoder = dec.obj
              /\ randState = dec.s
              /\ embeddingDim = d
    /\ tokenizer = Tokenizer
    /\ embeddings = <<>>
    /\ outputLayerWeights = <<>>
    /\ vocabSize = 0
    /\ nBuilds = 0
    /\ seenWords = <<>>
    /\ tokens = <<>>
    /\ encoderInput = <<>>
    /\ encoderOutput = <<>>
    /\ logits = <<>>
    /\ probabilities = <<>>
    /\ predictedIndex = 0
    /\ result = ""
    /\ stages = <<>>
    /\ lookups = <<>>
    /\ call = [op |-> "none"]

HeadsNext ==
    /\ pc = "components"
    /\ \E input \in InputMatrices(embeddingDim), mask \in BOOLEAN :
          AttentionForward(1, input, mask)

SpecHeads == HeadsInit /\ [][HeadsNext]_vars

\* The score vectors handed to softmax directly.
SoftmaxScores == {MaskScore, -4 * ONE, -ONE, 0, 1, ONE}

SoftmaxInputs == SeqsUpTo(SoftmaxScores, MaxVecLen) \ {<<>>}

SoftmaxInit ==
    /\ pc = "softmax"
    /\ randState \in Seeds
    /\ tokenizer = Tokenizer
    /\ embeddings = <<>>
    /\ encoder = <<>>
    /\ decoder = <<>>
    /\ outputLayerWeights = <<>>
    /\ embeddingDim = 0
    /\ vocabSize = 0
    /\ nBuilds = 0
    /\ seenWords = <<>>
    /\ tokens = <<>>
    /\ encoderInput = <<>>
    /\ encoderOutput = <<>>
    /\ logits = <<>>
    /\ probabilities = <<>>
    /\ predictedIndex = 0
    /\ result = ""
    /\ stages = <<>>
    /\ lookups = <<>>
    /\ call = [op |-> "none"]

\* Utils::softmax(scores)
SoftmaxCall(scores) ==
    /\ pc = "softmax"
    /\ call' = [op |-> "softmax", scores |-> scores,
                expScores |-> softmaxExpScores(scores),
                output |-> softmax(scores)]
    /\ pc' = "called"
    /\ UNCHANGED notCall

SoftmaxNext ==
    /\ pc = "softmax"
    /\ \E scores \in SoftmaxInputs : SoftmaxCall(scores)

SpecSoftmax == SoftmaxInit /\ [][SoftmaxNext]_vars

-----------------------------------------------------------------------------
(* Claims about the whole program (Spec)                                   *)

\* The running prediction is past the loop that fills encoderInput.
AfterPrepare ==
    pc \in {"encode", "project", "softmax", "argmax", "decode", "returned",
            "crashed"}

\* The attention objects of the encoder's and the decoder's layers.
AttentionObjects ==
    {encoder.layers[k].selfAttention : k \in 1..Len(encoder.layers)}
        \cup {decoder.layers[k].maskedSelfAttention :
                  k \in 1..Len(decoder.layers)}
        \cup {decoder.layers[k].encoderDecoderAttention :
                  k \in 1..Len(decoder.layers)}

\* C3 (as claimed): a prediction runs embeddings, the Encoder stack, the
\* Decoder stack, the output projection, softmax, argmax and decode, in this
\* order, the Decoder stack exactly once and after the Encoder stack.
C3_DecoderBetweenEncoderAndProjection ==
    pc = "returned" =>
        stages = <<"embeddings", "encoder", "decoder", "projection",
                   "softmax", "argmax", "decode">>

\* C4 (as claimed): no attention object exists whose embeddingDim is not a
\* multiple of its numHeads: such a construction ends in an error.
C4_ConstructionRejectsIndivisible ==
    pc # "start" =>
        \A a \in AttentionObjects : a.embeddingDim % a.numHeads = 0

\* C6: predictedIndex is the smallest index whose probability is at least
\* every other probability: the first of the entries that share the maximum.
C6_ArgmaxFirstOfMaxima ==
    pc \in {"decode", "returned"} =>
        /\ predictedIndex + 1 \in 1..Len(probabilities)
        /\ \A k \in 1..Len(probabilities) :
              probabilities[k] <= probabilities[predictedIndex + 1]
        /\ \A k \in 1..predictedIndex :
              probabilities[k] < probabilities[predictedIndex + 1]

\* C6 witness: the maximum is shared with a later entry, and the first one
\* was chosen.
C6_TieSeen ==
    /\ pc = "decode"
    /\ \E k \in (predictedIndex + 2)..Len(probabilities) :
          probabilities[k] = probabilities[predictedIndex + 1]

\* The words of seen, lowercased, each kept at its first occurrence only.
RECURSIVE FirstOccurrences(_)
FirstOccurrences(seen) ==
    IF seen = <<>> THEN <<>>
    ELSE LET before == FirstOccurrences(SubSeq(seen, 1, Len(seen) - 1))
             w == ToLower(seen[Len(seen)])
         IN  IF w \in Range(before) THEN before ELSE Append(before, w)

\* C7: after any sequence of buildVocabulary calls wordToIndex and
\* indexToWord are inverse to each other, the indices are 0..vocabSize-1 in
\* the order of first occurrence, vocabSize is the number of distinct
\* lowercased words read; decode(encode(w)) is w lowercased for a word in the
\* vocabulary, encode(w) is -1 for any other word, and decode(k) is "<unk>"
\* for k outside 0..vocabSize-1.
C7_VocabularyBijection ==
    LET t == tokenizer
        first == FirstOccurrences(seenWords)
    IN  /\ getVocabSize(t) = Len(first)
        /\ DOMAIN t.indexToWord = 0..(getVocabSize(t) - 1)
        /\ DOMAIN t.wordToIndex = Range(first)
        /\ \A k \in 1..Len(first) :
              /\ t.indexToWord[k - 1] = first[k]
              /\ t.wordToIndex[first[k]] = k - 1
        /\ \A w \in Words \cup Range(seenWords) \cup {"FOX", "the", "cat"} :
              IF ToLower(w) \in Range(first)
              THEN decode(t, encode(t, w)) = ToLower(w)
              ELSE encode(t, w) = -1
        /\ \A k \in {-2, -1, getVocabSize(t), getVocabSize(t) + 1, 999} :
              decode(t, k) = "<unk>"

\* C7 witness: two builds were made, a word was read in two spellings, and
\* a word of the model is not in the vocabulary.
C7_TwoBuildsMixedCase ==
    /\ nBuilds = 2
    /\ \E a, b \in 1..Len(seenWords) :
          seenWords[a] # seenWords[b]
              /\ ToLower(seenWords[a]) = ToLower(seenWords[b])
    /\ encode(tokenizer, "zzz") = -1
    /\ decode(tokenizer, encode(tokenizer, "The")) = "the"

\* The token at C++ position i - 1 was handled by the loop of Prepare before
\* the run went on or died.
Handled(i) ==
    pc # "crashed" \/ i <= lookups[Len(lookups)].position

\* C8: an unknown token is no failure.  After the loop that fills
\* encoderInput, the row of every token that encodes to -1 is the zero vector
\* of length embeddingDim, no getEmbedding call was made with index -1 (the
\* calls made are those of the known tokens, in order), the row of a known
\* token is its embedding, and the prediction goes on through the encoder to
\* a returned word: the only way it ends early is a known token's read
\* outside positionalEncodings, never an unknown token.
C8_UnknownTokenIsZeroRow ==
    AfterPrepare =>
        /\ Len(encoderInput) = Len(tokens)
        /\ \A i \in 1..Len(tokens) :
              tokenIdxAt(i) = -1 =>
                  encoderInput[i] = [k \in 1..embeddingDim |-> 0]
        /\ \A k \in 1..Len(lookups) :
              /\ lookups[k].tokenIndex # -1
              /\ lookups[k].position \in 0..(Len(tokens) - 1)
              /\ lookups[k].tokenIndex = tokenIdxAt(lookups[k].position + 1)
              /\ \A j \in 1..(k - 1) : lookups[j].position < lookups[k].position
        /\ \A i \in 1..Len(tokens) :
              (tokenIdxAt(i) # -1 /\ Handled(i)) =>
                  \E k \in 1..Len(lookups) : lookups[k].position = i - 1
        /\ \A i \in 1..Len(tokens) :
              (tokenIdxAt(i) # -1 /\ i \notin OutOfBounds /\ Handled(i)) =>
                  encoderInput[i] =
                      getEmbedding(embeddings, tokenIdxAt(i), i - 1)
        /\ pc = "crashed" =>
              /\ lookups # <<>>
              /\ ~InBounds(embeddings, lookups[Len(lookups)].tokenIndex,
                           lookups[Len(lookups)].position)
        /\ pc \in {"project", "softmax", "argmax", "decode", "returned"} =>
              /\ stages[2] = "encoder"
              /\ Len(encoderOutput) = Len(tokens)
        /\ pc = "returned" =>
              result \in Range(FirstOccurrences(seenWords)) \cup {"<unk>"}

\* C8 witness: a prediction has returned a word for a sentence with an
\* unknown token before a known one.
C8_ReturnedWithUnknownToken ==
    /\ pc = "returned"
    /\ Len(tokens) = 2
    /\ tokenIdxAt(1) = -1
    /\ tokenIdxAt(2) # -1
    /\ result # "<unk>"

\* C12 (as claimed): every getEmbedding(tokenIndex, position) call that a
\* prediction makes after build() has 0 <= tokenIndex < vocabSize, the row
\* count of wordEmbeddings, and 0 <= position < maxSequenceLength, the row
\* count of positionalEncodings, whatever the number of tokens.
C12_LookupsInBounds ==
    AfterPrepare =>
        \A k \in 1..Len(lookups) :
            /\ 0 <= lookups[k].tokenIndex
            /\ lookups[k].tokenIndex < vocabSize
            /\ vocabSize = Len(embeddings.wordEmbeddings)
            /\ 0 <= lookups[k].position
            /\ lookups[k].position < embeddings.maxSequenceLength
            /\ embeddings.maxSequenceLength
                   = Len(embeddings.positionalEncodings)

\* gamma is all ones and beta all zeros in every layer.
GammaBetaAsConstructed ==
    /\ \A k \in 1..Len(encoder.layers) :
          LET l == encoder.layers[k]
          IN  /\ l.ln1_gamma = [c \in 1..embeddingDim |-> ONE]
              /\ l.ln2_gamma = [c \in 1..embeddingDim |-> ONE]
              /\ l.ln1_beta = [c \in 1..embeddingDim |-> 0]
              /\ l.ln2_beta = [c \in 1..embeddingDim |-> 0]
    /\ \A k \in 1..Len(decoder.layers) :
          LET l == decoder.layers[k]
          IN  /\ l.ln1_gamma = [c \in 1..embeddingDim |-> ONE]
              /\ l.ln2_gamma = [c \in 1..embeddingDim |-> ONE]
              /\ l.ln3_gamma = [c \in 1..embeddingDim |-> ONE]
              /\ l.ln1_beta = [c \in 1..embeddingDim |-> 0]
              /\ l.ln2_beta = [c \in 1..embeddingDim |-> 0]
              /\ l.ln3_beta = [c \in 1..embeddingDim |-> 0]

\* What a step of build() does to the weights and the vocabulary: the
\* embeddings and the output projection are replaced by ones sized to the
\* vocabulary, the positional encodings come out the same, and the
\* vocabulary keeps every entry it had.
BuildReplacesTopLevelOnly ==
    /\ Len(embeddings'.wordEmbeddings) = vocabSize'
    /\ embeddings'.positionalEncodings = embeddings.positionalEncodings
    /\ Len(outputLayerWeights') = embeddingDim
    /\ \A r \in 1..Len(outputLayerWeights') :
          Len(outputLayerWeights'[r]) = vocabSize'
    /\ \A w \in DOMAIN tokenizer.wordToIndex :
          /\ w \in DOMAIN tokenizer'.wordToIndex
          /\ tokenizer'.wordToIndex[w] = tokenizer.wordToIndex[w]
    /\ \A k \in DOMAIN tokenizer.indexToWord :
          /\ k \in DOMAIN tokenizer'.indexToWord
          /\ tokenizer'.indexToWord[k] = tokenizer.indexToWord[k]

\* C10: after construction no step changes a weight of an encoder or decoder
\* layer (gamma stays all ones, beta all zeros); no step of predictNextWord
\* changes the embedding tables, the output projection or the vocabulary
\* maps; the only step that does is build(), which replaces the top-level
\* embeddings and the output projection, sized to vocabSize.
C10_WeightsFrame ==
    /\ [](pc # "start" => GammaBetaAsConstructed)
    /\ [][pc # "start" =>
            /\ encoder' = encoder
            /\ decoder' = decoder
            /\ nBuilds' = nBuilds =>
                  /\ tokenizer' = tokenizer
                  /\ embeddings' = embeddings
                  /\ outputLayerWeights' = outputLayerWeights
            /\ nBuilds' # nBuilds => BuildReplacesTopLevelOnly]_vars

\* C10 witness: a prediction has returned after build() was called twice.
C10_PredictedAfterRebuild ==
    /\ pc = "returned"
    /\ nBuilds = 2
    /\ Len(encoder.layers) >= 1

-----------------------------------------------------------------------------
(* Claims about the components (SpecComponents, SpecSoftmax)               *)

\* m has rows rows, each of length cols.
HasShape(m, rows, cols) ==
    /\ Len(m) = rows
    /\ \A i \in 1..rows : Len(m[i]) = cols

\* C1: with mask set and the same weights, two inputs that differ only in
\* row j give the same output row i for every i < j.
C1_MaskedAttentionIsCausal ==
    call.op = "MultiHeadSelfAttention.forward twice" =>
        \A i \in 1..(call.changedRow - 1) : call.output[i] = call.output2[i]

\* C1 witness: a masked call whose two inputs differ in a row after the
\* first, and whose outputs differ (from that row on).
C1_LaterRowChanged ==
    /\ call.op = "MultiHeadSelfAttention.forward twice"
    /\ call.mask
    /\ call.changedRow >= 2
    /\ call.input # call.input2
    /\ call.output # call.output2

\* C2 (as claimed): the encoder-decoder attention of DecoderLayer::forward
\* projects Key and Value from encoderOutput.
C2_KeyValueFromEncoderOutput ==
    call.op = "DecoderLayer.forward" =>
        call.keyValueInput = call.encoderOutput

\* C5: softmax of a non-empty finite vector.  Every exponential is at most
\* exp(0) = 1 and one of them is exp(0), so their sum is at least 1 and the
\* division is never by zero; every entry of the result is non-negative, the
\* entries sum to 1 (to the rounding of one grid step per entry), and for
\* all-equal scores every entry is 1/n.
C5_SoftmaxIsDistribution ==
    call.op = "softmax" =>
        LET n == Len(call.scores)
        IN  /\ Len(call.output) = n
            /\ \A k \in 1..n : 0 <= call.expScores[k] /\ call.expScores[k] <= ONE
            /\ \E k \in 1..n : call.expScores[k] = ONE
            /\ SumFrom(call.expScores, 1) >= ONE
            /\ \A k \in 1..n : ~IsNaN(call.output[k]) /\ call.output[k] >= 0
            /\ SumFrom(call.output, 1) > ONE - n
            /\ SumFrom(call.output, 1) < ONE + n
            /\ (\A k \in 1..n : call.scores[k] = call.scores[1]) =>
                  \A k \in 1..n : call.output[k] = RDiv(ONE, n)

\* C5 witness: softmax of all-equal scores well below zero, more than one.
C5_AllEqualScores ==
    /\ call.op = "softmax"
    /\ Len(call.scores) >= 2
    /\ \A k \in 1..Len(call.scores) : call.scores[k] = -4 * ONE
    /\ call.output[1] = RDiv(ONE, Len(call.scores))

\* C9: when numHeads divides embeddingDim, forward of the attention, of an
\* encoder layer, of a decoder layer and of the Encoder (after every one of
\* its layers, for any number of them) returns as many rows as its input
\* has, each of length embeddingDim.
C9_ShapePreserved ==
    (\A a \in AttentionObjects : a.embeddingDim % a.numHeads = 0) =>
        /\ call.op \in {"MultiHeadSelfAttention.forward",
                        "MultiHeadSelfAttention.forward twice",
                        "EncoderLayer.forward", "DecoderLayer.forward",
                        "Encoder.forward"} =>
              HasShape(call.output, Len(call.input), embeddingDim)
        /\ call.op = "MultiHeadSelfAttention.forward twice" =>
              HasShape(call.output2, Len(call.input), embeddingDim)
        /\ call.op = "Encoder.forward" =>
              \A k \in 0..Len(encoder.layers) :
                  HasShape(call.outputs[k], Len(call.input), embeddingDim)

\* C9 witness: the Encoder has run a layer on an input of two rows, with two
\* heads.
C9_EncoderRanTwoRows ==
    /\ call.op = "Encoder.forward"
    /\ Len(encoder.layers) >= 1
    /\ encoder.layers[1].selfAttention.numHeads = 2
    /\ embeddingDim = 2
    /\ Len(call.input) = 2
    /\ call.output # call.input

-----------------------------------------------------------------------------
(* Claims about the heads of one forward call (SpecHeads)                  *)

\* C11: in forward with numHeads dividing embeddingDim, head h reads the
\* columns [h * headDim, (h + 1) * headDim) of Q_all, K_all and V_all, and
\* nothing else, into its Q_head, K_head and V_head; it writes its output
\* to the same block of concatenatedHeads and to no other column; no column
\* is written by two heads; every column of every row is written exactly
\* once before the final linear layer, so that the block of head h in
\* concatenatedHeads is the head's output.
C11_HeadsPartitionColumns ==
    (/\ call.op = "MultiHeadSelfAttention.forward"
     /\ call.self.embeddingDim % call.self.numHeads = 0) =>
        LET self == call.self
            t == call.locals
            hd == self.headDim
            seqLen == Len(call.input)
            W == 1..Len(t.writes)
        IN  /\ \A h \in 0..(self.numHeads - 1) :
                  /\ t.heads[h].reads = (h * hd)..((h + 1) * hd - 1)
                  /\ {t.writes[k].col : k \in {j \in W : t.writes[j].head = h}}
                         = (h * hd)..((h + 1) * hd - 1)
                  /\ \A i \in 1..seqLen, d \in 1..hd :
                        /\ t.heads[h].Q_head[i][d] = t.Q_all[i][h * hd + d]
                        /\ t.heads[h].K_head[i][d] = t.K_all[i][h * hd + d]
                        /\ t.heads[h].V_head[i][d] = t.V_all[i][h * hd + d]
                        /\ t.concatenatedHeads[i][h * hd + d]
                               = t.heads[h].headOutput[i][d]
            /\ \A j, k \in W :
                  t.writes[j].col = t.writes[k].col =>
                      t.writes[j].head = t.writes[k].head
            /\ \A i \in 0..(seqLen - 1), c \in 0..(self.embeddingDim - 1) :
                  Cardinality({k \in W : /\ t.writes[k].row = i
                                         /\ t.writes[k].col = c}) = 1
            /\ call.output = Project(t.concatenatedHeads, self.W_O)

\* C11 witness: forward has run with two heads of two columns each on two
\* rows, and the two heads' outputs differ.
C11_TwoHeadsOfTwoColumns ==
    /\ call.op = "MultiHeadSelfAttention.forward"
    /\ call.self.numHeads = 2
    /\ call.self.headDim = 2
    /\ Len(call.input) = 2
    /\ call.locals.heads[0].headOutput # call.locals.heads[1].headOutput
    /\ call.locals.concatenatedHeads[2][4]
           = call.locals.heads[1].headOutput[2][2]

====
